---- MODULE Spec2Model ----
(***************************************************************************)
(* Model of Game.cpp (15-466-f18-game0): the mesh catalog load and the     *)
(* level generation of the constructor, the key-event handler, the motion  *)
(* integrator and the board loop of the renderer.                          *)
(*                                                                         *)
(* float values are modelled exactly: a float is the integer number of     *)
(* 2^-27 it holds (1.0f is Unit), every arithmetic result is rounded to    *)
(* the 24 significant bits of an IEEE-754 binary32 (round to nearest,      *)
(* ties to even).  All model values are multiples of 2^-27 of magnitude    *)
(* below 16, so they are binary32 values and the rounding is the           *)
(* hardware's.  Infinities and NaN are outside the model.                  *)
(***************************************************************************)
EXTENDS Integers, Sequences, FiniteSets, TLC

VARIABLES
    pc,              \* "load" (reading the index), "generate" (in generate_level),
                     \* "run" (constructed), "failed" (the constructor threw),
                     \* "aborted" (assertion failure or trap)
    index,           \* std::map< std::string, Mesh > index of the constructor
    meshes,          \* the seven Mesh members (avatar_mesh, ..., tile_mesh)
    board_size,      \* glm::uvec2 board_size, <<x, y>>
    ndebug,          \* whether the build defines NDEBUG (assert compiled out)
    remaining_edges, \* std::set< const Edge * > remaining_edges of generate_level
    i,               \* loop counter of generate_level
    key_locations,   \* the four glm::uvec3 of key_locations, <<x, y>> each
    key_edges,       \* the edge picked in each iteration of generate_level
    key_placements,  \* the placement picked in each iteration of generate_level
    controls,        \* controls.go_up, go_down, go_left, go_right
    x_velocity,
    y_velocity,
    avatar_location, \* <<x, y>> of the glm::vec3 (z is never written)
    avatar_rotation, \* rotation about z, in degrees
    draws,           \* the draw_mesh calls of the last draw, in order
    last,            \* the last operation, its inputs and its return value
    ticks,           \* update calls so far
    entries          \* index entries read so far

catalogVars == <<index, meshes, entries>>

levelVars == <<board_size, ndebug, remaining_edges, i, key_locations, key_edges,
               key_placements>>

motionVars == <<x_velocity, y_velocity, avatar_location, avatar_rotation, ticks>>

vars == <<pc, catalogVars, levelVars, controls, motionVars, draws, last>>

(***************************************************************************)
(* Bounds of the model.                                                    *)
(***************************************************************************)
MaxTicks == 2
MaxRand == 3
MaxBoard == 6
MaxEntries == 8

(***************************************************************************)
(* binary32 arithmetic.                                                    *)
(***************************************************************************)
Unit == 2^27

Abs(n) == IF n < 0 THEN -n ELSE n

Min(a, b) == IF b < a THEN b ELSE a

Max(a, b) == IF a < b THEN b ELSE a

\* spacing of binary32 values at magnitude n (n >= 0), in model units
RECURSIVE Ulp(_)
Ulp(n) == IF n < 2^24 THEN 1 ELSE 2 * Ulp(n \div 2)

\* round to nearest, ties to even, n >= 0
RoundMagnitude(n) ==
    LET u == Ulp(n)
        q == n \div u
        r == n % u
    IN  IF 2 * r < u THEN q * u
        ELSE IF 2 * r > u THEN (q + 1) * u
        ELSE IF q % 2 = 0 THEN q * u
        ELSE (q + 1) * u

Float(n) == IF n < 0 THEN -RoundMagnitude(-n) ELSE RoundMagnitude(n)

FAdd(a, b) == Float(a + b)

FSub(a, b) == Float(a - b)

\* glm::clamp(x, minVal, maxVal) = min(max(x, minVal), maxVal)
Clamp(x, minVal, maxVal) == Min(Max(x, minVal), maxVal)

(***************************************************************************)
(* Members declared in Game.hpp.                                           *)
(***************************************************************************)
acceleration == 5

max_velocity == 2 * Unit

BoardSize == <<6, 6>>

AvatarStart == <<Unit, Unit>>

\* 0.1f, the float nearest to 0.1, in units of 2^-27
TenthSecond == 13421773

\* elapsed values handed to update: 0, 2^-27, 0.1f, 0.4f
ElapsedValues == {0, 1, TenthSecond, 4 * TenthSecond}

\* the seven meshes of a blob that loaded
LoadedMeshes == [k \in 1..7 |-> [first |-> k - 1, count |-> 1]]

NoControls == [go_up |-> FALSE, go_down |-> FALSE, go_left |-> FALSE, go_right |-> FALSE]

(***************************************************************************)
(* Game::handle_event                                                      *)
(***************************************************************************)
EventTypes == {"SDL_KEYDOWN", "SDL_KEYUP", "SDL_MOUSEMOTION"}

Scancodes == {"W", "S", "A", "D", "SPACE"}

Events == [type : EventTypes, repeat : BOOLEAN, scancode : Scancodes]

IsKeyEvent(evt) == evt.type = "SDL_KEYDOWN" \/ evt.type = "SDL_KEYUP"

IsRepeat(evt) == evt.type = "SDL_KEYDOWN" /\ evt.repeat

KeyFlag(scancode) ==
    CASE scancode = "W" -> "go_up"
      [] scancode = "S" -> "go_down"
      [] scancode = "A" -> "go_left"
      [] scancode = "D" -> "go_right"
      [] OTHER -> "none"

\* the handler without its auto-repeat filter
HandleEventControlsRepeat(evt) ==
    IF IsKeyEvent(evt) /\ KeyFlag(evt.scancode) # "none"
    THEN [controls EXCEPT ![KeyFlag(evt.scancode)] = (evt.type = "SDL_KEYDOWN")]
    ELSE controls

HandleEventControls(evt) ==
    IF IsRepeat(evt) THEN controls
    ELSE IF IsKeyEvent(evt) /\ KeyFlag(evt.scancode) # "none"
         THEN [controls EXCEPT ![KeyFlag(evt.scancode)] = (evt.type = "SDL_KEYDOWN")]
         ELSE controls

HandleEventReturn(evt) ==
    IF IsRepeat(evt) THEN FALSE
    ELSE IsKeyEvent(evt) /\ KeyFlag(evt.scancode) # "none"

handle_event(evt) ==
    /\ pc = "run"
    /\ controls' = HandleEventControls(evt)
    /\ last' = [op |-> "handle_event", ret |-> HandleEventReturn(evt)]
    /\ UNCHANGED <<pc, catalogVars, levelVars, motionVars, draws>>

(***************************************************************************)
(* Game::update                                                            *)
(***************************************************************************)
\* elapsed * acceleration
Delta(elapsed) == Float(elapsed * acceleration)

AccelerateX(v, elapsed) ==
    LET v1 == IF controls.go_left THEN FSub(v, Delta(elapsed)) ELSE v
    IN  IF controls.go_right THEN FAdd(v1, Delta(elapsed)) ELSE v1

AccelerateY(v, elapsed) ==
    LET v1 == IF controls.go_up THEN FAdd(v, Delta(elapsed)) ELSE v
    IN  IF controls.go_down THEN FSub(v1, Delta(elapsed)) ELSE v1

\* the velocity reset taken whenever the two keys agree, held or not
StopXAgree(v) == IF controls.go_left = controls.go_right THEN 0 ELSE v

StopX(v) == IF ~controls.go_left /\ ~controls.go_right THEN 0 ELSE v

StopY(v) == IF ~controls.go_up /\ ~controls.go_down THEN 0 ELSE v

\* the clamp without its lower limit
ClampVelocityUpper(v) == Min(v, max_velocity)

ClampVelocity(v) == Clamp(v, -max_velocity, max_velocity)

\* the four assignments in the opposite order: down, up, right, left
FacingLeftLast(r) ==
    LET r1 == IF controls.go_down THEN -90 ELSE r
        r2 == IF controls.go_up THEN 90 ELSE r1
        r3 == IF controls.go_right THEN 0 ELSE r2
    IN  IF controls.go_left THEN 180 ELSE r3

\* avatar_rotation as the angle about z, in degrees; glm::quat() is the
\* identity, the angle 0
Facing(r) ==
    LET r1 == IF controls.go_left THEN 180 ELSE r
        r2 == IF controls.go_right THEN 0 ELSE r1
        r3 == IF controls.go_up THEN 90 ELSE r2
    IN  IF controls.go_down THEN -90 ELSE r3

\* the position clamp without its lower limit
ClampPositionUpper(p, extent) == Min((extent - 2) * Unit, p)

\* std::min(board_size - 2.0f, std::max(1.0f, p))
ClampPosition(p, extent) == Min((extent - 2) * Unit, Max(Unit, p))

\* the avatar moved only when both components are non-zero
MoveBoth(loc, vx, vy) ==
    IF vx # 0 /\ vy # 0
    THEN <<ClampPosition(FAdd(loc[1], vx), board_size[1]),
           ClampPosition(FAdd(loc[2], vy), board_size[2])>>
    ELSE loc

Move(loc, vx, vy) ==
    IF <<vx, vy>> # <<0, 0>>
    THEN <<ClampPosition(FAdd(loc[1], vx), board_size[1]),
           ClampPosition(FAdd(loc[2], vy), board_size[2])>>
    ELSE loc

update(elapsed) ==
    /\ pc = "run"
    /\ ticks < MaxTicks
    /\ LET vx == ClampVelocity(StopX(AccelerateX(x_velocity, elapsed)))
           vy == ClampVelocity(StopY(AccelerateY(y_velocity, elapsed)))
       IN  /\ x_velocity' = vx
           /\ y_velocity' = vy
           /\ avatar_location' = Move(avatar_location, vx, vy)
    /\ avatar_rotation' = Facing(avatar_rotation)
    /\ ticks' = ticks + 1
    /\ last' = [op |-> "update", elapsed |-> elapsed]
    /\ UNCHANGED <<pc, catalogVars, levelVars, controls, draws>>

(***************************************************************************)
(* Game::Game: the index of the mesh blob                                  *)
(***************************************************************************)
AvatarName == <<"A", "v", "a", "t", "a", "r">>

PeanutName == <<"P", "e", "a", "n", "u", "t">>

BreadName == <<"B", "r", "e", "a", "d">>

JellyName == <<"J", "e", "l", "l", "y">>

CounterName == <<"C", "o", "u", "n", "t", "e", "r">>

ServeName == <<"S", "e", "r", "v", "e">>

TileName == <<"T", "i", "l", "e">>

\* the names lookup is called with, in the order of the calls
RequiredNames ==
    <<AvatarName, PeanutName, BreadName, JellyName, CounterName, ServeName, TileName>>

\* the str0 chunk of the blob read: the seven names and one more mesh, "Cube"
names ==
    AvatarName \o PeanutName \o BreadName \o JellyName \o CounterName \o
    ServeName \o TileName \o <<"C", "u", "b", "e">>

\* the dat0 chunk of the blob read: one vertex
vertices == <<"vertex">>

\* the (name_begin, name_end) an index entry may hold: the eight names of the
\* chunk, a range with begin > end, a range that ends past the chunk
NameRanges == {<<0, 6>>, <<6, 12>>, <<12, 17>>, <<17, 22>>, <<22, 29>>, <<29, 34>>, <<34, 38>>, <<38, 42>>, <<3, 2>>, <<38, 43>>}

\* the (vertex_begin, vertex_end) an index entry may hold
VertexRanges == (0..(Len(vertices) + 1)) \X (0..(Len(vertices) + 1))

IndexEntries ==
    {[name_begin |-> n[1], name_end |-> n[2], vertex_begin |-> v[1], vertex_end |-> v[2]] :
        n \in NameRanges, v \in VertexRanges}

InvalidName(e) == e.name_begin > e.name_end \/ e.name_end > Len(names)

\* the vertex check without its comparison against vertices.size()
InvalidVerticesNoSize(e) == e.vertex_begin > e.vertex_end

InvalidVertices(e) == e.vertex_begin > e.vertex_end \/ e.vertex_end > Len(vertices)

\* std::string(names.begin() + e.name_begin, names.begin() + e.name_end)
EntryName(e) == SubSeq(names, e.name_begin + 1, e.name_end)

EntryMesh(e) == [first |-> e.vertex_begin, count |-> e.vertex_end - e.vertex_begin]

\* a throw out of the constructor: the block's locals are gone
Throw(what) ==
    /\ pc' = "failed"
    /\ index' = <<>>
    /\ entries' = 0
    /\ last' = [op |-> "construct", error |-> what]
    /\ UNCHANGED meshes

\* one iteration of the loop over index_entries
read_entry(e) ==
    /\ pc = "load"
    /\ entries < MaxEntries
    /\ IF InvalidName(e) THEN Throw("invalid name indices in index.")
       ELSE IF InvalidVertices(e) THEN Throw("invalid vertex indices in index.")
       ELSE IF EntryName(e) \in DOMAIN index THEN Throw("duplicate name in index.")
       ELSE /\ index' = [n \in DOMAIN index \cup {EntryName(e)} |->
                            IF n = EntryName(e) THEN EntryMesh(e) ELSE index[n]]
            /\ entries' = entries + 1
            /\ last' = [op |-> "construct"]
            /\ UNCHANGED <<pc, meshes>>
    /\ UNCHANGED <<levelVars, controls, motionVars, draws>>

\* the seven calls of lookup after the loop
lookup_meshes ==
    /\ pc = "load"
    /\ IF \E k \in 1..7 : RequiredNames[k] \notin DOMAIN index
       THEN Throw("Mesh does not appear in index.")
       ELSE /\ meshes' = [k \in 1..7 |-> index[RequiredNames[k]]]
            /\ pc' = "generate"
            /\ last' = [op |-> "construct"]
            /\ UNCHANGED <<index, entries>>
    /\ UNCHANGED <<levelVars, controls, motionVars, draws>>

(***************************************************************************)
(* Game::generate_level                                                    *)
(***************************************************************************)
\* top, bottom, left, right as the constructor sets them
Edges == [top    |-> [is_column |-> 0, is_end |-> 0],
          bottom |-> [is_column |-> 0, is_end |-> 1],
          left   |-> [is_column |-> 1, is_end |-> 0],
          right  |-> [is_column |-> 1, is_end |-> 1]]

\* the order of std::set< const Edge * >: the addresses of the four members
EdgeOrder == <<"top", "bottom", "left", "right">>

\* *std::next(remaining_edges.begin(), n)
NthRemaining(n) ==
    LET In(e) == e \in remaining_edges
    IN  SelectSeq(EdgeOrder, In)[n + 1]

\* board_size[!(edge->is_column)]
EdgeMax(edge) == IF Edges[edge].is_column = 1 THEN board_size[1] ELSE board_size[2]

\* 1 + rand() % (max-2), in uint32_t, for max # 2: with max < 2 the divisor
\* max-2 wraps to 2^32-2+max, which is above RAND_MAX, so the remainder is r
Placement(r, max) == IF max >= 3 THEN 1 + (r % (max - 2)) ELSE 1 + r

EdgeIncrement(edge) == IF Edges[edge].is_column = 1 THEN board_size[1] ELSE 1

EdgeStart(edge) ==
    Edges[edge].is_end *
        (IF Edges[edge].is_column = 1
         THEN board_size[1] - 1
         ELSE board_size[1] * (board_size[2] - 1))

CellIndex(edge, placement) == EdgeStart(edge) + placement * EdgeIncrement(edge)

\* x = index / board_size.x, y = index % board_size.x
CellOf(idx) == <<idx \div board_size[1], idx % board_size[1]>>

\* Game::on_edge
on_edge(x, y) ==
    x = 0 \/ x = board_size[1] - 1 \/ y = 0 \/ y = board_size[2] - 1

\* the loop body without remaining_edges.erase(edge)
PlaceKeyNoErase(edge, placement) ==
    LET cell == <<CellIndex(edge, placement) \div board_size[1],
                  CellIndex(edge, placement) % board_size[1]>>
    IN  IF ~ndebug /\ ~on_edge(cell[1], cell[2])
        THEN /\ pc' = "aborted"
             /\ UNCHANGED <<remaining_edges, i, key_locations, key_edges, key_placements>>
        ELSE /\ key_locations' = [key_locations EXCEPT ![i + 1] = cell]
             /\ key_edges' = [key_edges EXCEPT ![i + 1] = edge]
             /\ key_placements' = [key_placements EXCEPT ![i + 1] = placement]
             /\ remaining_edges' = remaining_edges
             /\ i' = i + 1
             /\ pc' = IF i + 1 < 4 THEN "generate" ELSE "run"

\* the loop body once edge and placement are known: the assertion, the store
\* through the pointer into key_locations, the erase
PlaceKey(edge, placement) ==
    LET cell == CellOf(CellIndex(edge, placement))
    IN  IF ~ndebug /\ ~on_edge(cell[1], cell[2])
        THEN /\ pc' = "aborted"
             /\ UNCHANGED <<remaining_edges, i, key_locations, key_edges, key_placements>>
        ELSE /\ key_locations' = [key_locations EXCEPT ![i + 1] = cell]
             /\ key_edges' = [key_edges EXCEPT ![i + 1] = edge]
             /\ key_placements' = [key_placements EXCEPT ![i + 1] = placement]
             /\ remaining_edges' = remaining_edges \ {edge}
             /\ i' = i + 1
             /\ pc' = IF i + 1 < 4 THEN "generate" ELSE "run"

\* one iteration of the loop; r1 and r2 are the two values rand() returns
generate_level(r1, r2) ==
    /\ pc = "generate"
    /\ i < 4
    /\ LET edge == NthRemaining(r1 % Cardinality(remaining_edges))
       IN  /\ EdgeMax(edge) # 2
           /\ PlaceKey(edge, Placement(r2, EdgeMax(edge)))
    /\ last' = [op |-> "generate_level"]
    /\ UNCHANGED <<catalogVars, board_size, ndebug, controls, motionVars, draws>>

\* an iteration with max = 2: rand() % 0 is undefined; the build either traps
\* or goes on with some remainder
generate_level_div0(r1, rem) ==
    /\ pc = "generate"
    /\ i < 4
    /\ LET edge == NthRemaining(r1 % Cardinality(remaining_edges))
       IN  /\ EdgeMax(edge) = 2
           /\ \/ /\ pc' = "aborted"
                 /\ UNCHANGED <<remaining_edges, i, key_locations, key_edges,
                                key_placements>>
              \/ PlaceKey(edge, 1 + rem)
    /\ last' = [op |-> "generate_level"]
    /\ UNCHANGED <<catalogVars, board_size, ndebug, controls, motionVars, draws>>

(***************************************************************************)
(* Game::draw: the draw_mesh calls, as <<mesh, x, y>>                      *)
(***************************************************************************)
\* Game::not_occupied
not_occupied(x, y) ==
    /\ <<x, y>> # key_locations[1]
    /\ <<x, y>> # key_locations[2]
    /\ <<x, y>> # key_locations[3]
    /\ <<x, y>> # key_locations[4]

\* the body of the board loop for index n
DrawCell(n) ==
    LET x == n \div board_size[1]
        y == n % board_size[2]
    IN  <<<<"tile_mesh", x, y>>>> \o
        (IF on_edge(x, y) /\ not_occupied(x, y)
         THEN <<<<"counter_mesh", x, y>>>>
         ELSE <<>>)

RECURSIVE DrawBoard(_)
DrawBoard(n) == IF n = 0 THEN <<>> ELSE DrawBoard(n - 1) \o DrawCell(n - 1)

DrawObjects ==
    << <<"avatar_mesh", avatar_location[1], avatar_location[2]>>,
       <<"peanut_mesh", key_locations[1][1], key_locations[1][2]>>,
       <<"bread_mesh", key_locations[2][1], key_locations[2][2]>>,
       <<"jelly_mesh", key_locations[3][1], key_locations[3][2]>>,
       <<"serve_mesh", key_locations[4][1], key_locations[4][2]>> >>

draw ==
    /\ pc = "run"
    /\ draws' = DrawBoard(board_size[1] * board_size[2]) \o DrawObjects
    /\ last' = [op |-> "draw"]
    /\ UNCHANGED <<pc, catalogVars, levelVars, controls, motionVars>>

(***************************************************************************)
(* The running session on the 6x6 board.                                   *)
(***************************************************************************)
Init ==
    /\ pc = "run"
    /\ index = <<>>
    /\ meshes = LoadedMeshes
    /\ board_size = BoardSize
    /\ ndebug = FALSE
    /\ remaining_edges = {}
    /\ i = 4
    /\ key_locations = <<<<0, 2>>, <<5, 3>>, <<1, 0>>, <<4, 5>>>>
    /\ key_edges = <<"top", "bottom", "left", "right">>
    /\ key_placements = <<2, 3, 1, 4>>
    /\ controls = NoControls
    /\ x_velocity = 0
    /\ y_velocity = 0
    /\ avatar_location = AvatarStart
    /\ avatar_rotation = 0
    /\ draws = <<>>
    /\ last = [op |-> "construct"]
    /\ ticks = 0
    /\ entries = 0

\* draw writes no member; the renderer is checked with the level generator
Next ==
    \/ \E evt \in Events : handle_event(evt)
    \/ \E elapsed \in ElapsedValues : update(elapsed)

Spec == Init /\ [][Next]_vars

(***************************************************************************)
(* The same session with every frame taking 0.1 s (the key handling does   *)
(* not read the motion state).                                             *)
(***************************************************************************)
NextControls ==
    \/ \E evt \in Events : handle_event(evt)
    \/ update(TenthSecond)

SpecControls == Init /\ [][NextControls]_vars

(***************************************************************************)
(* Level generation and rendering, for every board up to MaxBoard x        *)
(* MaxBoard and both builds (assert active, assert compiled out).          *)
(***************************************************************************)
InitLevel ==
    /\ pc = "generate"
    /\ index = <<>>
    /\ meshes = LoadedMeshes
    /\ board_size \in (1..MaxBoard) \X (1..MaxBoard)
    /\ ndebug \in BOOLEAN
    /\ remaining_edges = {"top", "bottom", "left", "right"}
    /\ i = 0
    /\ key_locations = <<<<0, 0>>, <<0, 0>>, <<0, 0>>, <<0, 0>>>>
    /\ key_edges = <<"none", "none", "none", "none">>
    /\ key_placements = <<0, 0, 0, 0>>
    /\ controls = NoControls
    /\ x_velocity = 0
    /\ y_velocity = 0
    /\ avatar_location = AvatarStart
    /\ avatar_rotation = 0
    /\ draws = <<>>
    /\ last = [op |-> "construct"]
    /\ ticks = 0
    /\ entries = 0

NextLevel ==
    \/ \E r1, r2 \in 0..MaxRand : generate_level(r1, r2)
    \/ \E r1, rem \in 0..MaxRand : generate_level_div0(r1, rem)
    \/ draw

SpecLevel == InitLevel /\ [][NextLevel]_vars

(***************************************************************************)
(* The mesh catalog load of the constructor, for every sequence of index   *)
(* entries drawn from IndexEntries.                                        *)
(***************************************************************************)
InitCatalog ==
    /\ pc = "load"
    /\ index = <<>>
    /\ meshes = <<>>
    /\ board_size = BoardSize
    /\ ndebug = FALSE
    /\ remaining_edges = {"top", "bottom", "left", "right"}
    /\ i = 0
    /\ key_locations = <<<<0, 0>>, <<0, 0>>, <<0, 0>>, <<0, 0>>>>
    /\ key_edges = <<"none", "none", "none", "none">>
    /\ key_placements = <<0, 0, 0, 0>>
    /\ controls = NoControls
    /\ x_velocity = 0
    /\ y_velocity = 0
    /\ avatar_location = AvatarStart
    /\ avatar_rotation = 0
    /\ draws = <<>>
    /\ last = [op |-> "construct"]
    /\ ticks = 0
    /\ entries = 0

NextCatalog ==
    \/ \E e \in IndexEntries : read_entry(e)
    \/ lookup_meshes

SpecCatalog == InitCatalog /\ [][NextCatalog]_vars

(***************************************************************************)
(* Claims about the running session.                                       *)
(***************************************************************************)
InRange(p, extent) == Unit <= p /\ p <= (extent - 2) * Unit

\* C1: after every update tick the avatar position lies within
\* [1, board_width-2] x [1, board_height-2].
C1_AvatarStaysInside ==
    (pc = "run" /\ ticks > 0) =>
        /\ InRange(avatar_location[1], board_size[1])
        /\ InRange(avatar_location[2], board_size[2])

\* the avatar pushed against the far wall in x and the near wall in y
C1_Witness ==
    /\ last.op = "update"
    /\ ticks >= 2
    /\ x_velocity > 0
    /\ y_velocity < 0
    /\ avatar_location = <<(board_size[1] - 2) * Unit, Unit>>

\* C2: after every update both velocity components lie within
\* [-max_velocity, max_velocity].
C2_VelocityClamped ==
    (pc = "run" /\ ticks > 0) =>
        /\ -max_velocity <= x_velocity /\ x_velocity <= max_velocity
        /\ -max_velocity <= y_velocity /\ y_velocity <= max_velocity

\* both limits reached after two accelerating ticks
C2_Witness ==
    /\ last.op = "update"
    /\ ticks >= 2
    /\ controls.go_right /\ ~controls.go_left
    /\ controls.go_down /\ ~controls.go_up
    /\ x_velocity = max_velocity
    /\ y_velocity = -max_velocity
    /\ avatar_location[1] = (board_size[1] - 2) * Unit

C5_Flags == {"go_up", "go_down", "go_left", "go_right"}

C5_Post(evt) ==
    LET own == CASE evt.scancode = "W" -> "go_up"
                 [] evt.scancode = "S" -> "go_down"
                 [] evt.scancode = "A" -> "go_left"
                 [] evt.scancode = "D" -> "go_right"
                 [] OTHER -> "none"
        down == evt.type = "SDL_KEYDOWN" /\ ~evt.repeat /\ own # "none"
        up == evt.type = "SDL_KEYUP" /\ own # "none"
    IN  /\ down => controls'[own] = TRUE
        /\ up => controls'[own] = FALSE
        /\ \A f \in C5_Flags : (~(down \/ up) \/ f # own) => controls'[f] = controls[f]
        /\ ~(down \/ up) => last'.ret = FALSE

\* C5: a flag becomes true exactly on a non-repeat key-down of its own key and
\* false exactly on a key-up of its own key; an auto-repeat key-down and every
\* other event change no flag and return false; no event changes another
\* key's flag.
C5_ControlsFollowKeys ==
    [][last'.op = "handle_event" =>
        \A evt \in Events : handle_event(evt) => C5_Post(evt)]_vars

\* W and D held, S released again, the last event having been handled
C5_Witness ==
    /\ last.op = "handle_event"
    /\ last.ret = TRUE
    /\ controls = [go_up |-> TRUE, go_down |-> FALSE, go_left |-> FALSE, go_right |-> TRUE]

\* C6 as stated: a tick with both opposing keys of an axis held leaves that
\* axis's velocity exactly as it was.
C6_OpposingKeysCancel ==
    [][ticks' = ticks + 1 => \A elapsed \in ElapsedValues : update(elapsed) =>
        /\ (controls.go_left /\ controls.go_right) => x_velocity' = x_velocity
        /\ (controls.go_up /\ controls.go_down) => y_velocity' = y_velocity]_vars

\* C6 as amended: a tick with both opposing keys of an axis held leaves that
\* axis's velocity as it was whenever the intermediate value (velocity minus
\* elapsed*acceleration in x, velocity plus elapsed*acceleration in y) is
\* exactly representable as a float.
C6_OpposingKeysCancelWhenExact ==
    [][ticks' = ticks + 1 => \A elapsed \in ElapsedValues : update(elapsed) =>
        /\ ( /\ controls.go_left /\ controls.go_right
             /\ Abs(x_velocity) <= max_velocity
             /\ Float(x_velocity - Delta(elapsed)) = x_velocity - Delta(elapsed) )
           => x_velocity' = x_velocity
        /\ ( /\ controls.go_up /\ controls.go_down
             /\ Abs(y_velocity) <= max_velocity
             /\ Float(y_velocity + Delta(elapsed)) = y_velocity + Delta(elapsed) )
           => y_velocity' = y_velocity]_vars

\* a tick with all four keys held that kept a non-zero velocity on both axes
C6_Witness ==
    /\ last.op = "update"
    /\ ticks >= 2
    /\ controls.go_left /\ controls.go_right /\ controls.go_up /\ controls.go_down
    /\ x_velocity = Unit \div 2
    /\ y_velocity = -(Unit \div 2)

\* C10: a tick with only go_right held, from x_velocity = 0, sets x_velocity to
\* min(acceleration * elapsed, max_velocity) (0.5 for elapsed = 0.1f), y_velocity
\* to 0, and avatar_location.x to min(old x + x_velocity, board_width-2); the
\* velocity is added as it is, not multiplied by elapsed; avatar_location.y
\* is unchanged when it was within [1, board_height-2].
C10_RightOnlyTick ==
    [][\A elapsed \in ElapsedValues :
        ( /\ ticks' = ticks + 1
          /\ controls = [NoControls EXCEPT !.go_right = TRUE]
          /\ x_velocity = 0
          /\ update(elapsed) )
        => /\ x_velocity' = Min(Delta(elapsed), max_velocity)
           /\ (elapsed = TenthSecond /\ acceleration = 5) => x_velocity' = Unit \div 2
           /\ y_velocity' = 0
           /\ avatar_location'[1] =
                Min(Float(avatar_location[1] + x_velocity'), (board_size[1] - 2) * Unit)
           /\ InRange(avatar_location[2], board_size[2])
                => avatar_location'[2] = avatar_location[2]]_vars

\* the scenario: from (1,1), one tick of 0.1 with go_right held
C10_Witness ==
    /\ last.op = "update"
    /\ ticks = 1
    /\ controls = [NoControls EXCEPT !.go_right = TRUE]
    /\ x_velocity = Unit \div 2
    /\ y_velocity = 0
    /\ avatar_location = <<3 * (Unit \div 2), Unit>>

\* C11: after an update tick the facing follows the held keys with the
\* priority down > up > right > left: -90 degrees if go_down is held, else 90
\* if go_up is held, else 0 if go_right is held, else 180 if go_left is held,
\* and the facing of before the tick if no direction key is held; opposing
\* keys held together do not cancel.
C11_FacingPriority ==
    [][ticks' = ticks + 1 =>
        avatar_rotation' =
            IF controls.go_down THEN -90
            ELSE IF controls.go_up THEN 90
            ELSE IF controls.go_right THEN 0
            ELSE IF controls.go_left THEN 180
            ELSE avatar_rotation]_vars

\* a tick with all four keys held, after which the avatar faces down
C11_Witness ==
    /\ last.op = "update"
    /\ controls.go_left /\ controls.go_right /\ controls.go_up /\ controls.go_down
    /\ avatar_rotation = -90

(***************************************************************************)
(* Claims about level generation and rendering.                            *)
(***************************************************************************)
OnBoard(c) ==
    /\ 0 <= c[1] /\ c[1] < board_size[1]
    /\ 0 <= c[2] /\ c[2] < board_size[2]

\* the borders of the board a cell lies on
Borders(c) ==
    {b \in {"x_min", "x_max", "y_min", "y_max"} :
        \/ b = "x_min" /\ c[1] = 0
        \/ b = "x_max" /\ c[1] = board_size[1] - 1
        \/ b = "y_min" /\ c[2] = 0
        \/ b = "y_max" /\ c[2] = board_size[2] - 1}

WellPlaced(k) ==
    /\ OnBoard(key_locations[k])
    /\ Cardinality(Borders(key_locations[k])) = 1
    /\ \A j \in 1..(k - 1) :
         Borders(key_locations[j]) \cap Borders(key_locations[k]) = {}

\* C3 as stated: on every board of width >= 3 and height >= 3, square or not,
\* the assertion of generate_level never fails and every key assigned lies on
\* the board, on exactly one edge (no corner), on an edge no other key is on.
C3_KeysOnDistinctEdges ==
    (~ndebug /\ board_size[1] >= 3 /\ board_size[2] >= 3) =>
        /\ pc # "aborted"
        /\ \A k \in 1..i : WellPlaced(k)

\* where a key sits for an edge and an offset along it
C4_Cell(edge, offset) ==
    CASE edge = "top" -> <<0, offset>>
      [] edge = "bottom" -> <<board_size[1] - 1, offset>>
      [] edge = "left" -> <<offset, 0>>
      [] edge = "right" -> <<offset, board_size[2] - 1>>

\* C4: on the 6x6 board generate_level picks each of the four edges exactly
\* once, one per key in the order peanut, bread, jelly, serve, every offset
\* along an edge lies in [1,4], and the four key locations are pairwise
\* distinct cells.
C4_SixBySix ==
    board_size = BoardSize =>
        /\ pc # "aborted"
        /\ \A k \in 1..i :
             /\ key_edges[k] \in {"top", "bottom", "left", "right"}
             /\ key_placements[k] \in 1..4
             /\ key_locations[k] = C4_Cell(key_edges[k], key_placements[k])
             /\ \A j \in 1..(k - 1) :
                  /\ key_edges[j] # key_edges[k]
                  /\ key_locations[j] # key_locations[k]
        /\ pc = "run" =>
             /\ i = 4
             /\ {key_edges[k] : k \in 1..4} = {"top", "bottom", "left", "right"}

\* a finished 6x6 level using the last edge of the set first and all offsets
C4_Witness ==
    /\ pc = "run"
    /\ board_size = BoardSize
    /\ key_edges = <<"right", "top", "bottom", "left">>
    /\ key_placements = <<4, 1, 3, 2>>
    /\ key_locations = <<<<4, 5>>, <<0, 1>>, <<5, 3>>, <<2, 0>>>>

\* C8 as stated: when an extent used for an offset range is below 3,
\* generate_level fails fatally and does not return normally (every edge is
\* used before it returns, so both extents are used).
C8_SmallBoardFails ==
    (~ndebug /\ pc = "run") => (board_size[1] >= 3 /\ board_size[2] >= 3)

\* the number of draw_mesh calls of the last draw equal to call
C9_Count(call) == Cardinality({k \in DOMAIN draws : draws[k] = call})

\* C9 as stated: one draw issues exactly one Tile draw for every board cell
\* and none outside the board, and a Counter draw for a cell exactly when the
\* cell is on the board edge and holds no key, for every board of the data
\* model (width, height >= 3), square or not.
C9_TilesAndCounters ==
    (last.op = "draw" /\ board_size[1] >= 3 /\ board_size[2] >= 3) =>
        /\ \A x \in 0..(board_size[1] - 1), y \in 0..(board_size[2] - 1) :
             /\ C9_Count(<<"tile_mesh", x, y>>) = 1
             /\ (C9_Count(<<"counter_mesh", x, y>>) > 0) <=>
                    (on_edge(x, y) /\ not_occupied(x, y))
        /\ \A k \in DOMAIN draws :
             draws[k][1] \in {"tile_mesh", "counter_mesh"} =>
                 OnBoard(<<draws[k][2], draws[k][3]>>)

(***************************************************************************)
(* Claims about the mesh catalog.                                          *)
(***************************************************************************)
\* C7 as stated: when the catalog load has not failed, each of the seven
\* required meshes has count > 0.
C7_RequiredMeshesNonEmpty ==
    pc = "generate" => \A k \in 1..7 : meshes[k].count > 0

\* C7 as amended: unless the catalog load has failed, lookup of a required
\* name that is in the index returns the range of its index entry, first =
\* vertex_begin and count = vertex_end - vertex_begin >= 0, inside the vertex
\* buffer (count may be 0), and after the load each of the seven required
\* meshes is that range.
C7_RequiredMeshesInBuffer ==
    pc \in {"load", "generate"} =>
        \A k \in 1..7 :
            /\ pc = "generate" =>
                  /\ RequiredNames[k] \in DOMAIN index
                  /\ meshes[k] = index[RequiredNames[k]]
            /\ RequiredNames[k] \in DOMAIN index =>
                  /\ index[RequiredNames[k]].first >= 0
                  /\ index[RequiredNames[k]].count >= 0
                  /\ index[RequiredNames[k]].first + index[RequiredNames[k]].count
                        <= Len(vertices)

\* a catalog loaded with an empty Avatar mesh and a one-vertex Tile mesh
C7_Witness ==
    /\ pc = "generate"
    /\ meshes[1] = [first |-> 1, count |-> 0]
    /\ meshes[7] = [first |-> 0, count |-> 1]

====
